---- MODULE Spec2Model ----
(***************************************************************************)
(* A model of src/pandago_client/dataclasses/order.py: the pydantic (v2)   *)
(* records of the pandago client, their construction from field mappings,  *)
(* their model validators, the computed field is_detailed, plain field     *)
(* assignment, and serialization back to a field mapping.                  *)
(*                                                                         *)
(* The module imports computed_field and model_validator, which exist only *)
(* in pydantic 2.  There a field annotated Optional[T] with no default is  *)
(* REQUIRED: its key must be supplied, and None is one of its legal        *)
(* values.  No class sets a model_config, so the defaults apply: extra     *)
(* keys are ignored, instances are mutable (frozen = False) and an         *)
(* assignment is not validated (validate_assignment = False).              *)
(***************************************************************************)
EXTENDS Integers, Sequences, FiniteSets, TLC

VARIABLES
    inst,        \* the object the caller holds: an instance, or Null
    outcome,     \* how the last constructor call ended
    call,        \* the last constructor call: [cls, args]
    op,          \* the operation performed last
    prevStatus,  \* status of the Order the caller held before the last Order response
    assigned,    \* field assignments made on inst since it was constructed
    dumped,      \* the last result of model_dump, or Null
    reparsed     \* the last result of model_validate over dumped, or Null

vars == <<inst, outcome, call, op, prevStatus, assigned, dumped, reparsed>>

(***************************************************************************)
(* Python values.  Every value is a record with a kind k, so that any two  *)
(* values can be compared.                                                 *)
(***************************************************************************)
Null == [k |-> "None"]
Absent == [k |-> "absent"]
Str(s) == [k |-> "str", v |-> s]
Float(n) == [k |-> "float", v |-> n]
Integer(n) == [k |-> "int", v |-> n]
Bool(b) == [k |-> "bool", v |-> b]
Datetime(s) == [k |-> "datetime", v |-> s]
Dict(m) == [k |-> "dict", v |-> m]
Member(cls, name) == [k |-> "enum", cls |-> cls, v |-> name]
Instance(cls, fields) == [k |-> "model", cls |-> cls, v |-> fields]

\* mapping.get(key): a key that was not supplied is absent, which is not None
Get(m, key) == IF key \in DOMAIN m THEN m[key] ELSE Absent

\* the mapping m without the keys whose value is the marker Absent
Supplied(m) == [key \in {x \in DOMAIN m : m[x] # Absent} |-> m[key]]

(***************************************************************************)
(* Field annotations.                                                      *)
(***************************************************************************)
Req(t) == [t |-> t, cls |-> "", opt |-> FALSE]
Opt(t) == [t |-> t, cls |-> "", opt |-> TRUE]
ReqOf(t, cls) == [t |-> t, cls |-> cls, opt |-> FALSE]
OptOf(t, cls) == [t |-> t, cls |-> cls, opt |-> TRUE]

Location ==
    [address |-> Req("str"), latitude |-> Req("float"),
     longitude |-> Req("float"), postalcode |-> Opt("str")]

Sender ==
    [name |-> Opt("str"), phone_number |-> Opt("str"),
     location |-> OptOf("model", "Location"), notes |-> Opt("str"),
     client_vendor_id |-> Opt("str")]

Recipient ==
    [name |-> Req("str"), phone_number |-> Req("str"),
     location |-> ReqOf("model", "Location"), notes |-> Opt("str")]

Driver == [id |-> Req("str"), name |-> Req("str"), phone_number |-> Req("str")]

PaymentMethod == {"PAID", "CASH_ON_DELIVERY"}

DeliveryTasks == [age_verification_required |-> Req("bool")]

OrderInput ==
    [client_order_id |-> Opt("str"),
     sender |-> OptOf("model", "Sender"),
     recipient |-> ReqOf("model", "Recipient"),
     payment_method |-> OptOf("enum", "PaymentMethod"),
     amount |-> Req("float"),
     collect_from_customer |-> Opt("float"),
     coldbag_needed |-> Opt("bool"),
     description |-> Req("str"),
     preordered_for |-> Opt("int"),
     delivery_tasks |-> OptOf("model", "DeliveryTasks")]

OrderStatus ==
    {"NEW", "RECEIVED", "WAITING_FOR_TRANSPORT", "ASSIGNED_TO_TRANSPORT",
     "COURIER_ACCEPTED_DELIVERY", "NEAR_VENDOR", "PICKED_UP",
     "COURIER_LEFT_VENDOR", "NEAR_CUSTOMER", "DELIVERED", "DELAYED",
     "CANCELLED", "RETURNED_TO_VENDOR"}

OrderTimeline ==
    [estimated_pickup_time |-> Req("str"), estimated_delivery_time |-> Req("str")]

\* the member LOGISITICS has the value "LOGISTICS"; a str enum is parsed by value
CancellationSource == {"CLIENT", "LOGISTICS"}

CancellationReason ==
    {"ADDRESS_INCOMPLETE_MISSTATED", "BAD_WEATHER", "CLOSED", "COURIER_ACCIDENT",
     "COURIER_UNREACHABLE", "DELIVERY_ETA_TOO_LONG", "DUPLICATE_ORDER",
     "FOOD_QUALITY_SPILLAGE", "LATE_DELIVERY", "MISTAKE_ERROR", "NO_COURIER",
     "OUTSIDE_DELIVERY_AREA", "OUTSIDE_SERVICE_HOURS", "REASON_UNKNOWN",
     "TECHNICAL_PROBLEM", "UNABLE_TO_FIND", "UNABLE_TO_PAY",
     "WRONG_ORDER_ITEMS_DELIVERED"}

Cancellation ==
    [source |-> ReqOf("enum", "CancellationSource"),
     reason |-> ReqOf("enum", "CancellationReason")]

Order ==
    [order_id |-> Req("str"),
     client_order_id |-> Req("str"),
     sender |-> ReqOf("model", "Sender"),
     recipient |-> ReqOf("model", "Recipient"),
     distance |-> Req("float"),
     payment_method |-> ReqOf("enum", "PaymentMethod"),
     coldbag_needed |-> Req("bool"),
     amount |-> Req("float"),
     description |-> Req("str"),
     status |-> ReqOf("enum", "OrderStatus"),
     delivery_fee |-> Req("float"),
     timeline |-> ReqOf("model", "OrderTimeline"),
     driver |-> ReqOf("model", "Driver"),
     created_at |-> Req("datetime"),
     updated_at |-> Req("datetime"),
     delivery_tasks |-> ReqOf("model", "DeliveryTasks"),
     is_dynamic_pickup |-> Opt("bool"),
     tracking_link |-> Opt("str"),
     proof_of_delivery_url |-> Opt("str"),
     proof_of_pickup_url |-> Opt("str"),
     proof_of_return_url |-> Opt("str"),
     cancellation |-> OptOf("model", "Cancellation")]

OrderCancellationInput == [reason |-> ReqOf("enum", "CancellationReason")]

UpdateOrderLocationInput ==
    [address |-> Opt("str"), latitude |-> Req("float"),
     longitude |-> Req("float"), notes |-> Opt("str")]

UpdateOrderInput ==
    [payment_method |-> OptOf("enum", "PaymentMethod"),
     amount |-> Opt("float"),
     location |-> OptOf("model", "UpdateOrderLocationInput"),
     description |-> Opt("str")]

\* the declared fields of a record class
Fields(cls) ==
    CASE cls = "Location" -> Location
      [] cls = "Sender" -> Sender
      [] cls = "Recipient" -> Recipient
      [] cls = "Driver" -> Driver
      [] cls = "DeliveryTasks" -> DeliveryTasks
      [] cls = "OrderInput" -> OrderInput
      [] cls = "OrderTimeline" -> OrderTimeline
      [] cls = "Cancellation" -> Cancellation
      [] cls = "Order" -> Order
      [] cls = "OrderCancellationInput" -> OrderCancellationInput
      [] cls = "UpdateOrderLocationInput" -> UpdateOrderLocationInput
      [] cls = "UpdateOrderInput" -> UpdateOrderInput

\* the values of an enumeration class
Members(cls) ==
    CASE cls = "PaymentMethod" -> PaymentMethod
      [] cls = "OrderStatus" -> OrderStatus
      [] cls = "CancellationSource" -> CancellationSource
      [] cls = "CancellationReason" -> CancellationReason

(***************************************************************************)
(* Validation (pydantic-core, lax mode) of one value against an annotation.*)
(* A result is [ok, val]: the validated value, or a validation error.      *)
(***************************************************************************)
Ok(x) == [ok |-> TRUE, val |-> x]
ValidationError == [ok |-> FALSE, val |-> Null]

\* an ISO 8601 text as an instant; 0 when the text is no timestamp
ParseIso(s) ==
    CASE s = "2024-01-01T10:00:00Z" -> 1
      [] s = "2024-01-01T11:00:00Z" -> 2
      [] OTHER -> 0

ValidatePrimitive(t, x) ==
    CASE t = "str" -> IF x.k = "str" THEN Ok(x) ELSE ValidationError
      [] t = "float" ->
            IF x.k = "float" THEN Ok(x)
            ELSE IF x.k = "int" THEN Ok(Float(x.v))
            ELSE ValidationError
      [] t = "int" -> IF x.k = "int" THEN Ok(x) ELSE ValidationError
      [] t = "bool" -> IF x.k = "bool" THEN Ok(x) ELSE ValidationError
      [] t = "datetime" ->
            IF x.k = "datetime" THEN Ok(x)
            ELSE IF x.k = "str" /\ ParseIso(x.v) # 0 THEN Ok(Datetime(ParseIso(x.v)))
            ELSE ValidationError

\* ValidateEnum with a transition table: a delivered order is never NEW again
ValidateEnum_transitions(cls, x) ==
    IF cls = "OrderStatus" /\ x = Str("NEW") /\ inst # Null /\ inst.cls = "Order"
       /\ inst.v.status = Member("OrderStatus", "DELIVERED")
    THEN ValidationError
    ELSE IF x.k = "enum" /\ x.cls = cls THEN Ok(x)
    ELSE IF x.k = "str" /\ x.v \in Members(cls) THEN Ok(Member(cls, x.v))
    ELSE ValidationError

\* a (str, Enum) field takes a member of the class, or the text of one
ValidateEnum(cls, x) ==
    IF x.k = "enum" /\ x.cls = cls THEN Ok(x)
    ELSE IF x.k = "str" /\ x.v \in Members(cls) THEN Ok(Member(cls, x.v))
    ELSE ValidationError

\* check_sender_information with "and" for "or": raises only when all three are None
check_sender_information_and(self) ==
    IF self.v.client_vendor_id = Null
    THEN ~(self.v.name = Null /\ self.v.phone_number = Null /\ self.v.location = Null)
    ELSE TRUE

\* Sender.check_sender_information: TRUE when it returns self, FALSE when it raises
check_sender_information(self) ==
    IF self.v.client_vendor_id = Null
    THEN ~(self.v.name = Null \/ self.v.phone_number = Null \/ self.v.location = Null)
    ELSE TRUE

\* check_valid_reason with REASON_UNKNOWN left out of the list
check_valid_reason_two(self) ==
    self.v.reason \in
        {Member("CancellationReason", "DELIVERY_ETA_TOO_LONG"),
         Member("CancellationReason", "MISTAKE_ERROR")}

\* OrderCancellationInput.check_valid_reason: TRUE when it returns self
check_valid_reason(self) ==
    self.v.reason \in
        {Member("CancellationReason", "DELIVERY_ETA_TOO_LONG"),
         Member("CancellationReason", "MISTAKE_ERROR"),
         Member("CancellationReason", "REASON_UNKNOWN")}

\* ModelValidators with the decorator missing on Sender.check_sender_information
ModelValidators_unregistered(cls, self) ==
    CASE cls = "OrderCancellationInput" -> check_valid_reason(self)
      [] OTHER -> TRUE

\* the mode="after" validators of a class, run on the instance once its fields validated
ModelValidators(cls, self) ==
    CASE cls = "Sender" -> check_sender_information(self)
      [] cls = "OrderCancellationInput" -> check_valid_reason(self)
      [] OTHER -> TRUE

RECURSIVE ValidateModel(_, _)
RECURSIVE ValidateField(_, _)

\* one field: a missing key is an error whatever the annotation, since no field
\* declares a default; None is taken by Optional[...] alone
ValidateField(ann, x) ==
    IF x = Absent THEN ValidationError
    ELSE IF x = Null THEN (IF ann.opt THEN Ok(Null) ELSE ValidationError)
    ELSE IF ann.t = "model" THEN ValidateModel(ann.cls, x)
    ELSE IF ann.t = "enum" THEN ValidateEnum(ann.cls, x)
    ELSE ValidatePrimitive(ann.t, x)

\* cls(**mapping) / cls.model_validate(mapping): every declared field is validated,
\* keys that are no field are ignored, then the model validators run
ValidateModel(cls, x) ==
    IF x.k = "model"
    THEN (IF x.cls = cls THEN Ok(x) ELSE ValidationError)
    ELSE IF x.k # "dict" THEN ValidationError
    ELSE LET res == [f \in DOMAIN Fields(cls) |-> ValidateField(Fields(cls)[f], Get(x.v, f))]
         IN  IF \E f \in DOMAIN res : ~res[f].ok THEN ValidationError
             ELSE LET self == Instance(cls, [f \in DOMAIN res |-> res[f].val])
                  IN  IF ModelValidators(cls, self) THEN Ok(self) ELSE ValidationError

\* is_detailed testing is_dynamic_pickup for truth instead of for None
is_detailed_truthy(self) ==
    \/ self.v.tracking_link # Null
    \/ self.v.proof_of_pickup_url # Null
    \/ self.v.proof_of_delivery_url # Null
    \/ self.v.proof_of_return_url # Null
    \/ self.v.cancellation # Null
    \/ self.v.is_dynamic_pickup = Bool(TRUE)

\* Order.is_detailed, a computed field: evaluated at every read, never stored
is_detailed(self) ==
    \/ self.v.tracking_link # Null
    \/ self.v.proof_of_pickup_url # Null
    \/ self.v.proof_of_delivery_url # Null
    \/ self.v.proof_of_return_url # Null
    \/ self.v.cancellation # Null
    \/ self.v.is_dynamic_pickup # Null

\* the computed fields model_dump adds to the declared ones
ComputedFields(cls) == IF cls = "Order" THEN {"is_detailed"} ELSE {}

RECURSIVE model_dump(_)

\* model_dump(exclude_none=True): the entries that are None are left out
model_dump_exclude_none(x) ==
    IF x.k = "model"
    THEN Dict([f \in {g \in DOMAIN x.v : x.v[g] # Null} \cup ComputedFields(x.cls) |->
                 IF f \in ComputedFields(x.cls) THEN Bool(is_detailed(x))
                 ELSE model_dump(x.v[f])])
    ELSE x

\* BaseModel.model_dump() in python mode: records become mappings, recursively,
\* with the computed fields added; enum members and datetimes stay as they are
model_dump(x) ==
    IF x.k = "model"
    THEN Dict([f \in DOMAIN x.v \cup ComputedFields(x.cls) |->
                 IF f \in ComputedFields(x.cls) THEN Bool(is_detailed(x))
                 ELSE model_dump(x.v[f])])
    ELSE x

(***************************************************************************)
(* The callers' inputs: the field mappings handed to the constructors.     *)
(***************************************************************************)
MaxDetailed == 2    \* detailed-response fields an Order response carries at most
MaxAssign == 1      \* field assignments followed on one instance

Texts == {Absent, Null, Str("A")}

LocationDict ==
    Dict([address |-> Str("1 Main St"), latitude |-> Float(1), longitude |-> Integer(2),
          postalcode |-> Null])

SenderArgs ==
    {Supplied([name |-> n, phone_number |-> p, location |-> l, notes |-> t,
               client_vendor_id |-> c]) :
        n \in Texts, p \in Texts, l \in {Absent, Null, LocationDict},
        t \in Texts, c \in {Absent, Null, Str("v1")}}

ReasonArgs ==
    {Supplied([reason |-> r]) :
        r \in {Str(x) : x \in CancellationReason \cup {"CUSTOMER_REQUEST", "CLIENT"}}
              \cup {Member("CancellationReason", x) : x \in CancellationReason}
              \cup {Member("CancellationSource", "CLIENT"), Null, Absent}}

UpdateOrderLocationArgs ==
    {Supplied([address |-> a, latitude |-> la, longitude |-> lo, notes |-> t]) :
        a \in Texts, la \in {Absent, Null, Float(1)}, lo \in {Absent, Null, Float(2)},
        t \in Texts}

UpdateOrderArgs ==
    {Supplied([payment_method |-> pm, amount |-> am, location |-> l, description |-> d]) :
        pm \in {Absent, Null, Str("PAID")}, am \in {Absent, Null, Float(5)},
        l \in {Absent, Null,
               Dict([address |-> Null, latitude |-> Float(1), longitude |-> Float(2),
                     notes |-> Null]),
               Dict([latitude |-> Float(1), longitude |-> Float(2)]),
               Dict([address |-> Str("1 Main St"), notes |-> Null])},
        d \in Texts}

\* sender mappings nested in an order: vendor reference only, full contact details,
\* neither, the vendor reference with the other keys left out, and a contact missing
SenderDicts ==
    {Dict([name |-> Null, phone_number |-> Null, location |-> Null, notes |-> Null,
           client_vendor_id |-> Str("v1")]),
     Dict([name |-> Str("A"), phone_number |-> Str("555"), location |-> LocationDict,
           notes |-> Null, client_vendor_id |-> Null]),
     Dict([name |-> Str("A"), phone_number |-> Null, location |-> Null, notes |-> Null,
           client_vendor_id |-> Null]),
     Dict([client_vendor_id |-> Str("v1")]),
     Dict([name |-> Str("A"), phone_number |-> Str("555"), notes |-> Null])}

RecipientDict ==
    Dict([name |-> Str("R"), phone_number |-> Str("777"), location |-> LocationDict,
          notes |-> Null])

OrderInputArgs ==
    {Supplied([client_order_id |-> Null, sender |-> s, recipient |-> RecipientDict,
               payment_method |-> pm, amount |-> Float(5),
               collect_from_customer |-> Null, coldbag_needed |-> Null,
               description |-> d, preordered_for |-> Null, delivery_tasks |-> Null]) :
        s \in SenderDicts \cup {Null, Absent},
        pm \in {Null, Str("PAID"), Str("CARD")},
        d \in {Absent, Str("A")}}

\* the values of the six detailed-response fields of a response
Detailed ==
    {d \in [is_dynamic_pickup : {Null, Bool(TRUE), Bool(FALSE)},
            tracking_link : {Null, Str("https://t")},
            proof_of_delivery_url : {Null, Str("https://d")},
            proof_of_pickup_url : {Null, Str("https://p")},
            proof_of_return_url : {Null, Str("https://r")},
            cancellation : {Null, Dict([source |-> Str("LOGISTICS"),
                                        reason |-> Str("BAD_WEATHER")])}] :
        Cardinality({f \in DOMAIN d : d[f] # Null}) <= MaxDetailed}

OrderArgs ==
    {[order_id |-> Str("o1"), client_order_id |-> Str("c1"), sender |-> s,
      recipient |-> RecipientDict, distance |-> Float(3),
      payment_method |-> Str("CASH_ON_DELIVERY"), coldbag_needed |-> Bool(FALSE),
      amount |-> Float(5), description |-> Str("A"), status |-> Str(st),
      delivery_fee |-> Integer(1),
      timeline |-> Dict([estimated_pickup_time |-> Str("10:00"),
                         estimated_delivery_time |-> Str("11:00")]),
      driver |-> Dict([id |-> Str("d1"), name |-> Str("D"), phone_number |-> Str("999")]),
      created_at |-> Str("2024-01-01T10:00:00Z"), updated_at |-> Datetime(2),
      delivery_tasks |-> Dict([age_verification_required |-> Bool(FALSE)]),
      is_dynamic_pickup |-> d.is_dynamic_pickup, tracking_link |-> d.tracking_link,
      proof_of_delivery_url |-> d.proof_of_delivery_url,
      proof_of_pickup_url |-> d.proof_of_pickup_url,
      proof_of_return_url |-> d.proof_of_return_url,
      cancellation |-> d.cancellation] :
        s \in SenderDicts, st \in OrderStatus \cup {"LOST"}, d \in Detailed}

(***************************************************************************)
(* The operations.                                                         *)
(***************************************************************************)
Init ==
    /\ inst = Null
    /\ outcome = "none"
    /\ call = [cls |-> "", args |-> Null]
    /\ op = "init"
    /\ prevStatus = "none"
    /\ assigned = 0
    /\ dumped = Null
    /\ reparsed = Null

Idle == op = "init"

\* cls(**args): the caller holds the new instance, or nothing when the call raised.
\* A constructor reads nothing of the caller's state, so it is followed from the
\* state in which the caller holds nothing (Release leads back there).
Construct(cls, args) ==
    LET r == ValidateModel(cls, Dict(args))
    IN  /\ inst' = IF r.ok THEN r.val ELSE Null
        /\ outcome' = IF r.ok THEN "ok" ELSE "ValidationError"
        /\ call' = [cls |-> cls, args |-> Dict(args)]
        /\ op' = "construct"
        /\ assigned' = 0
        /\ dumped' = Null
        /\ reparsed' = Null

NewSender ==
    /\ Idle
    /\ UNCHANGED prevStatus
    /\ \E a \in SenderArgs : Construct("Sender", a)

NewOrderCancellationInput ==
    /\ Idle
    /\ UNCHANGED prevStatus
    /\ \E a \in ReasonArgs : Construct("OrderCancellationInput", a)

NewUpdateOrderLocationInput ==
    /\ Idle
    /\ UNCHANGED prevStatus
    /\ \E a \in UpdateOrderLocationArgs : Construct("UpdateOrderLocationInput", a)

NewUpdateOrderInput ==
    /\ Idle
    /\ UNCHANGED prevStatus
    /\ \E a \in UpdateOrderArgs : Construct("UpdateOrderInput", a)

NewOrderInput ==
    /\ Idle
    /\ UNCHANGED prevStatus
    /\ \E a \in OrderInputArgs : Construct("OrderInput", a)

NewOrder ==
    /\ Idle
    /\ UNCHANGED prevStatus
    /\ \E a \in OrderArgs : Construct("Order", a)

\* the assignments the caller makes: a path of one or two attribute names and the
\* value stored, which nothing validates
Assignments(self) ==
    CASE self.cls = "Sender" ->
            {<<(<<"client_vendor_id">>), Null>>, <<(<<"name">>), Str("B")>>,
             <<(<<"notes">>), Integer(7)>>}
      [] self.cls = "OrderCancellationInput" ->
            {<<(<<"reason">>), Member("CancellationReason", "BAD_WEATHER")>>,
             <<(<<"reason">>), Member("CancellationReason", "MISTAKE_ERROR")>>}
      [] self.cls = "Order" ->
            {<<(<<"driver", "name">>), Str("E")>>,
             <<(<<"sender", "client_vendor_id">>), Null>>,
             <<(<<"status">>), Member("OrderStatus", "CANCELLED")>>,
             <<(<<"tracking_link">>), Str("https://u")>>,
             <<(<<"is_dynamic_pickup">>), Null>>}
      [] self.cls = "OrderInput" ->
            {<<(<<"description">>), Str("B")>>} \cup
            (IF self.v.sender = Null THEN {}
             ELSE {<<(<<"sender", "client_vendor_id">>), Null>>})
      [] self.cls = "UpdateOrderInput" -> {<<(<<"amount">>), Float(6)>>}
      [] self.cls = "UpdateOrderLocationInput" -> {<<(<<"latitude">>), Null>>}

\* SetField with the nested records sharing their storage: self.a.b = x shows in
\* every nested record that has a field b
SetField_shared(self, path, x) ==
    IF Len(path) = 1
    THEN [self EXCEPT !.v[path[1]] = x]
    ELSE [self EXCEPT !.v =
            [f \in DOMAIN self.v |->
                IF self.v[f].k = "model" /\ path[2] \in DOMAIN self.v[f].v
                THEN [self.v[f] EXCEPT !.v[path[2]] = x]
                ELSE self.v[f]]]

\* self.a = x, or self.a.b = x: the named field holds x afterwards
SetField(self, path, x) ==
    IF Len(path) = 1
    THEN [self EXCEPT !.v[path[1]] = x]
    ELSE [self EXCEPT !.v[path[1]] = [@ EXCEPT !.v[path[2]] = x]]

SetAttr ==
    /\ inst # Null
    /\ assigned < MaxAssign
    /\ \E a \in Assignments(inst) :
          inst' = SetField(inst, a[1], a[2])
    /\ op' = "setattr"
    /\ assigned' = assigned + 1
    /\ dumped' = Null
    /\ reparsed' = Null
    /\ UNCHANGED <<outcome, call, prevStatus>>

\* d = inst.model_dump()
ModelDump ==
    /\ inst # Null
    /\ dumped = Null
    /\ dumped' = model_dump(inst)
    /\ op' = "model_dump"
    /\ UNCHANGED <<inst, outcome, call, prevStatus, assigned, reparsed>>

\* type(inst).model_validate(d)
ModelValidate ==
    /\ dumped # Null
    /\ reparsed = Null
    /\ reparsed' = ValidateModel(inst.cls, dumped)
    /\ op' = "model_validate"
    /\ UNCHANGED <<inst, outcome, call, prevStatus, assigned, dumped>>

\* the next response for the order the caller holds: the same order, whatever status
\* the remote API reports now, parsed into a new Order that replaces the held one
NextResponse ==
    /\ inst # Null
    /\ inst.cls = "Order"
    /\ \E st \in OrderStatus \cup {"LOST"} :
          Construct("Order", [call.args.v EXCEPT !.status = Str(st)])
    /\ prevStatus' = inst.v.status.v

\* the caller drops what it holds (the instance, or the error of a failed call)
Release ==
    /\ ~Idle
    /\ inst' = Null
    /\ outcome' = "none"
    /\ call' = [cls |-> "", args |-> Null]
    /\ op' = "init"
    /\ prevStatus' = "none"
    /\ assigned' = 0
    /\ dumped' = Null
    /\ reparsed' = Null

Next ==
    \/ NewSender
    \/ NewOrderCancellationInput
    \/ NewUpdateOrderLocationInput
    \/ NewUpdateOrderInput
    \/ NewOrderInput
    \/ NewOrder
    \/ SetAttr
    \/ ModelDump
    \/ ModelValidate
    \/ Release

Spec == Init /\ [][Next]_vars

\* a caller that polls one order: each response replaces the Order it holds
NextTracking ==
    \/ NewOrder
    \/ NextResponse
    \/ Release

SpecTracking == Init /\ [][NextTracking]_vars

(***************************************************************************)
(* Vocabulary of the properties.                                           *)
(***************************************************************************)
\* the caller holds an instance of cls
Holds(cls) == inst # Null /\ inst.cls = cls

\* the last constructor call was cls(**args), and args its keyword arguments
Called(cls) == call.cls = cls
Args == call.args.v

\* key was given a value: supplied, and not None
Present(m, key) == Get(m, key) \notin {Absent, Null}

\* key was left out, or given None
Lacks(m, key) == Get(m, key) \in {Absent, Null}

AllowedReasons == {"DELIVERY_ETA_TOO_LONG", "MISTAKE_ERROR", "REASON_UNKNOWN"}

DetailedFields ==
    {"tracking_link", "proof_of_pickup_url", "proof_of_delivery_url",
     "proof_of_return_url", "cancellation", "is_dynamic_pickup"}

\* the Sender records that exist: the one held, or the one inside the order held
SendersOf(x) ==
    IF x = Null THEN {}
    ELSE IF x.cls = "Sender" THEN {x}
    ELSE IF x.cls \in {"Order", "OrderInput"} /\ x.v.sender # Null THEN {x.v.sender}
    ELSE {}

SenderIdentified(s) ==
    \/ s.v.client_vendor_id # Null
    \/ (s.v.name # Null /\ s.v.phone_number # Null /\ s.v.location # Null)

InvariantsHold ==
    /\ \A s \in SendersOf(inst) : SenderIdentified(s)
    /\ Holds("OrderCancellationInput") =>
          inst.v.reason \in {Member("CancellationReason", r) : r \in AllowedReasons}

(***************************************************************************)
(* C1.  Sender construction succeeds if and only if client_vendor_id is    *)
(* present, or name, phone_number and location are all present, each of    *)
(* the five fields being given a value, given None or left out; notes      *)
(* never changes the outcome.                                              *)
(***************************************************************************)
C1_SenderSucceedsIffIdentified ==
    Called("Sender") =>
        (outcome = "ok" <=>
            \/ Present(Args, "client_vendor_id")
            \/ (Present(Args, "name") /\ Present(Args, "phone_number")
                /\ Present(Args, "location")))

(***************************************************************************)
(* C2.  OrderCancellationInput construction succeeds if and only if reason *)
(* names DELIVERY_ETA_TOO_LONG, MISTAKE_ERROR or REASON_UNKNOWN; the other *)
(* 15 members and any value outside the enumeration end in a validation    *)
(* error.  On success the instance holds the member named.                 *)
(***************************************************************************)
C2_ReasonRestricted ==
    Called("OrderCancellationInput") =>
        LET r == Get(Args, "reason")
            named == \E a \in AllowedReasons :
                        r \in {Str(a), Member("CancellationReason", a)}
        IN  /\ outcome = "ok" <=> named
            /\ outcome # "ok" => (outcome = "ValidationError" /\ inst = Null)
            /\ outcome = "ok" /\ assigned = 0 =>
                  inst.v.reason = Member("CancellationReason", r.v)

C2_Witness ==
    /\ Called("OrderCancellationInput")
    /\ Get(Args, "reason") = Str("BAD_WEATHER")
    /\ outcome = "ValidationError"

(***************************************************************************)
(* C3.  For every Order instance is_detailed is true if and only if at     *)
(* least one of the six detailed-response fields is not None (so           *)
(* is_dynamic_pickup = False alone makes it true); it is what model_dump   *)
(* reports, and no other field enters it.                                  *)
(***************************************************************************)
C3_IsDetailedIffAnyDetail ==
    Holds("Order") =>
        /\ is_detailed(inst) <=> (\E f \in DetailedFields : inst.v[f] # Null)
        /\ dumped # Null =>
              dumped.v.is_detailed = Bool(\E f \in DetailedFields : inst.v[f] # Null)

C3_Witness ==
    /\ Holds("Order")
    /\ inst.v.is_dynamic_pickup = Bool(FALSE)
    /\ \A f \in DetailedFields \ {"is_dynamic_pickup"} : inst.v[f] = Null
    /\ is_detailed(inst)
    /\ dumped # Null

(***************************************************************************)
(* C4.  Round trip: the field mapping model_dump gives for a valid Order   *)
(* (with the derived is_detailed entry in it) parses back successfully to  *)
(* an Order equal to the original, field for field.                        *)
(***************************************************************************)
C4_RoundTrip ==
    Holds("Order") /\ assigned = 0 /\ reparsed # Null =>
        /\ "is_detailed" \in DOMAIN dumped.v
        /\ reparsed.ok
        /\ reparsed.val = inst
        /\ \A f \in DOMAIN Order : reparsed.val.v[f] = inst.v[f]

C4_Witness ==
    /\ Holds("Order")
    /\ assigned = 0
    /\ reparsed # Null
    /\ reparsed.ok
    /\ reparsed.val = inst
    /\ inst.v.cancellation # Null
    /\ inst.v.sender.v.client_vendor_id = Null
    /\ dumped.v.is_detailed = Bool(TRUE)

(***************************************************************************)
(* C5.  Sender(client_vendor_id="v1", name=None, phone_number=None,        *)
(* location=None) succeeds and Sender(client_vendor_id=None, name="A",     *)
(* phone_number=None, location=None) fails, notes being supplied to        *)
(* neither.                                                                *)
(***************************************************************************)
C5_SenderBoundary ==
    /\ call = [cls |-> "Sender",
               args |-> Dict([client_vendor_id |-> Str("v1"), name |-> Null,
                              phone_number |-> Null, location |-> Null])]
          => outcome = "ok"
    /\ call = [cls |-> "Sender",
               args |-> Dict([client_vendor_id |-> Null, name |-> Str("A"),
                              phone_number |-> Null, location |-> Null])]
          => outcome = "ValidationError"

(***************************************************************************)
(* C6.  As claimed: in every reachable state, after any constructions and  *)
(* field assignments, every existing Sender has client_vendor_id, or name, *)
(* phone_number and location, and every existing OrderCancellationInput    *)
(* has one of the three allowed reasons.                                   *)
(***************************************************************************)
C6_InvariantsAlways == InvariantsHold

(***************************************************************************)
(* C6, amended.  Every instance satisfies its invariants when constructed  *)
(* and for as long as no field of it is assigned; a failed construction    *)
(* leaves no instance.                                                     *)
(***************************************************************************)
C6_InvariantsUntilAssigned ==
    /\ assigned = 0 => InvariantsHold
    /\ outcome = "ValidationError" => inst = Null

C6_Witness ==
    /\ Holds("Sender")
    /\ assigned = 0
    /\ inst.v.client_vendor_id = Null
    /\ inst.v.name # Null /\ inst.v.phone_number # Null /\ inst.v.location # Null

(***************************************************************************)
(* C7.  As claimed: once a record is constructed no operation on it        *)
(* changes any of its fields.                                              *)
(***************************************************************************)
C7_Immutable ==
    [][inst # Null /\ op' \notin {"construct", "init"} => inst' = inst]_vars

(***************************************************************************)
(* C7, amended.  Records are mutable: model_dump and model_validate leave  *)
(* every field of the record as it was, and a field assignment, which is   *)
(* permitted, stores the assigned value in the field named and leaves      *)
(* every other field, of the record and of the records nested in it, as it *)
(* was.                                                                    *)
(***************************************************************************)
OnlyFieldChanged(old, new, path, x) ==
    /\ new.cls = old.cls
    /\ DOMAIN new.v = DOMAIN old.v
    /\ \A f \in DOMAIN old.v \ {path[1]} : new.v[f] = old.v[f]
    /\ IF Len(path) = 1 THEN new.v[path[1]] = x
       ELSE LET o == old.v[path[1]]
                n == new.v[path[1]]
            IN  /\ n.cls = o.cls
                /\ DOMAIN n.v = DOMAIN o.v
                /\ n.v[path[2]] = x
                /\ \A g \in DOMAIN o.v \ {path[2]} : n.v[g] = o.v[g]

C7_OnlyAssignmentChangesFields ==
    [][/\ inst # Null /\ op' \in {"model_dump", "model_validate"} => inst' = inst
       /\ inst # Null /\ op' = "setattr" =>
             \E a \in Assignments(inst) : OnlyFieldChanged(inst, inst', a[1], a[2])]_vars

C7_Witness ==
    /\ Holds("Order")
    /\ op = "setattr"
    /\ inst.v.driver.v.name = Str("E")
    /\ inst.v.driver.v.id = Str("d1")

(***************************************************************************)
(* C8.  UpdateOrderInput construction succeeds for every subset of its     *)
(* four fields that is supplied, none included, and                        *)
(* UpdateOrderLocationInput construction succeeds if and only if latitude  *)
(* and longitude are both supplied, whether or not address and notes are.  *)
(***************************************************************************)
C8_PartialUpdate ==
    /\ Called("UpdateOrderInput")
       /\ (Present(Args, "location") =>
              Present(Args.location.v, "latitude") /\ Present(Args.location.v, "longitude"))
          => outcome = "ok"
    /\ Called("UpdateOrderLocationInput") =>
          (outcome = "ok" <=> Present(Args, "latitude") /\ Present(Args, "longitude"))

(***************************************************************************)
(* C9.  No state machine over OrderStatus: whatever the status s of the    *)
(* Order held, the next response for the same order is accepted if and     *)
(* only if its status is one of the 13 members, so every pair (s, t) of    *)
(* members can follow one another.                                         *)
(***************************************************************************)
C9_NoStatusStateMachine ==
    /\ Called("Order") /\ prevStatus # "none" =>
          (outcome = "ok" <=> Args.status.v \in OrderStatus)
    /\ Holds("Order") =>
          \A t \in OrderStatus :
             LET r == ValidateModel("Order", Dict([Args EXCEPT !.status = Str(t)]))
             IN  r.ok /\ r.val.v.status = Member("OrderStatus", t)

C9_Witness ==
    /\ Holds("Order")
    /\ prevStatus = "DELIVERED"
    /\ inst.v.status = Member("OrderStatus", "NEW")
    /\ Cardinality(OrderStatus) = 13

(***************************************************************************)
(* C10.  A sender mapping that lacks client_vendor_id and lacks one of     *)
(* name, phone_number, location makes the construction of the OrderInput   *)
(* or Order around it fail, leaving no instance; an OrderInput whose       *)
(* sender is None is accepted whenever its other fields are valid.         *)
(***************************************************************************)
C10_NestedSenderPropagates ==
    /\ (/\ call.cls \in {"OrderInput", "Order"}
        /\ Present(Args, "sender")
        /\ Lacks(Args.sender.v, "client_vendor_id")
        /\ \E f \in {"name", "phone_number", "location"} : Lacks(Args.sender.v, f))
          => (outcome = "ValidationError" /\ inst = Null)
    /\ (Called("OrderInput") /\ Get(Args, "sender") = Null) =>
          (outcome = "ok" <=>
              /\ Get(Args, "payment_method") \in {Null, Str("PAID")}
              /\ Present(Args, "description"))

C10_Witness ==
    /\ Called("OrderInput")
    /\ Present(Args, "sender")
    /\ Args.sender.v = [name |-> Str("A"), phone_number |-> Null, location |-> Null,
                        notes |-> Null, client_vendor_id |-> Null]
    /\ outcome = "ValidationError"
    /\ inst = Null

====
